---- MODULE Spec2Model ----
(***************************************************************************)
(* Model of scripts/vaccinations/src/vax/batch/chile.py: the Chile batch   *)
(* class, whose to_csv reads two CSV tables, pipes each through a chain of *)
(* pandas transforms and writes three outputs.                             *)
(*                                                                         *)
(* Strings are sequences of one-character strings, so that comparison,     *)
(* joining and regular-expression matching are computed and not assumed.   *)
(* A cell that may be NaN is <<>> (NaN) or <<v>> (the value v).            *)
(* A data frame is a sequence of rows; a row is a function from column     *)
(* names to cells.  Dates (column headers of the source) are 1..NumDates,  *)
(* ordered as the ISO date strings they stand for.                         *)
(***************************************************************************)
EXTENDS Integers, Sequences, FiniteSets, TLC

\* ------------------------------------------------------------------ bounds
\* The most rows of a type table (Spec), of an age table (SpecAge), and the
\* longest age label (SpecLabel).
MaxRows == 3
MaxAgeRows == 2
MaxLabelLen == 5

\* The date columns of both source tables.
Dates == {1, 2}
NumDates == Cardinality(Dates)

\* ----------------------------------------------------------------- strings
\* The characters the model's strings use, in ASCII order.
Ascii ==
  <<" ", "+", ",", "-", "/", "0", "1", "2", "3", "4", "5", "6", "7", "8", "9",
    "A", "B", "C", "M", "N", "O", "P", "S", "T", "Z",
    "a", "c", "d", "e", "f", "h", "i", "l", "m", "n", "o", "r", "s", "t", "u",
    "v", "x", "y", "z">>

Ord(c) == CHOOSE i \in 1..Len(Ascii) : Ascii[i] = c

Digits == {"0", "1", "2", "3", "4", "5", "6", "7", "8", "9"}

Letters ==
  {"A", "B", "C", "M", "N", "O", "P", "S", "T", "Z",
   "a", "c", "d", "e", "f", "h", "i", "l", "m", "n", "o", "r", "s", "t", "u",
   "v", "x", "y", "z"}

\* Python's str < str: lexicographic by code point, a proper prefix first.
RECURSIVE StrLess(_, _)
StrLess(a, b) ==
  IF b = <<>> THEN FALSE
  ELSE IF a = <<>> THEN TRUE
  ELSE IF a[1] # b[1] THEN Ord(a[1]) < Ord(b[1])
  ELSE StrLess(Tail(a), Tail(b))

\* sep.join(strs)
RECURSIVE Join(_, _)
Join(sep, strs) ==
  IF strs = <<>> THEN <<>>
  ELSE IF Len(strs) = 1 THEN strs[1]
  ELSE strs[1] \o sep \o Join(sep, Tail(strs))

CommaSpace == <<",", " ">>

\* The labels of the source tables and the names the code maps them to.
Total == <<"T", "o", "t", "a", "l">>
Pfizer == <<"P", "f", "i", "z", "e", "r">>
Sinovac == <<"S", "i", "n", "o", "v", "a", "c">>
AstraZeneca == <<"A", "s", "t", "r", "a", "-", "Z", "e", "n", "e", "c", "a">>
Moderna == <<"M", "o", "d", "e", "r", "n", "a">>
PfizerBioNTech ==
  <<"P", "f", "i", "z", "e", "r", "/", "B", "i", "o", "N", "T", "e", "c", "h">>
OxfordAstraZeneca ==
  <<"O", "x", "f", "o", "r", "d", "/", "A", "s", "t", "r", "a", "Z", "e", "n",
    "e", "c", "a">>

\* -------------------------------------------------------------------- cells
NaN == <<>>
Val(v) == <<v>>
IsNaN(c) == c = <<>>
\* Series.fillna(0)
FillNa0(c) == IF IsNaN(c) THEN 0 ELSE c[1]

\* A stable sort of the sequence s, where less[i][j] tells that s[i] sorts
\* before s[j] (a strict weak order): element i goes after the elements that
\* are less and the equal ones that precede it.
SortBy(s, less) ==
  LET pos(i) ==
        1 + Cardinality({j \in 1..Len(s) :
              less[j][i] \/ (~less[i][j] /\ j < i)})
  IN  [k \in 1..Len(s) |-> s[CHOOSE i \in 1..Len(s) : pos(i) = k]]

RECURSIVE SumSeq(_)
SumSeq(s) == IF s = <<>> THEN 0 ELSE s[1] + SumSeq(Tail(s))

Range(s) == {s[i] : i \in 1..Len(s)}

\* df.columns has the column c.  A frame is its rows, so an empty frame has
\* no column: that is what pivot gives for an empty table (no Dose value, so
\* no value column).
HasColumn(df, c) == df # <<>> /\ c \in DOMAIN df[1]

\* ------------------------------------------------------------ the transforms
\* A source table (wide): one row per (label, Dose), the label in the column
\* "Type" or "Age", and one column per date, here the function r.cols.

\* pipe_melt: one row per source row and date column, column after column.
pipe_melt(df, id_vars) ==
  [k \in 1..(NumDates * Len(df)) |->
     LET d == ((k - 1) \div Len(df)) + 1
         r == df[((k - 1) % Len(df)) + 1]
     IN  [c \in id_vars |-> r[c]] @@ [date |-> d, value |-> r.cols[d]]]

\* Mutant: the row test without the "Total" test.
KeepRow_NoTotalTest(r, colname) == ~IsNaN(r.value) /\ r.value[1] > 0

\* The row test of pipe_filter_rows; NaN > 0 is False.
KeepRow(r, colname) == r[colname] # Total /\ ~IsNaN(r.value) /\ r.value[1] > 0

\* pipe_filter_rows
pipe_filter_rows(df, colname) == SelectSeq(df, LAMBDA r : KeepRow(r, colname))

\* DataFrame.pivot raises ValueError ("Index contains duplicate entries")
\* when two rows have the same index and column values.
PivotRaises(df, index) ==
  \E i, j \in 1..Len(df) :
     /\ i < j
     /\ \A c \in index : df[i][c] = df[j][c]
     /\ df[i].Dose = df[j].Dose

\* The order of the pivot's index <<label, date>>.
IndexLess(a, b, label) ==
  \/ StrLess(a[label], b[label])
  \/ a[label] = b[label] /\ a.date < b.date

\* pipe_pivot: one row per index value, sorted by the index, one column per
\* Dose value of the table, NaN where the table has no row.  index is the set
\* {label, "date"}.
pipe_pivot(df, index) ==
  LET label == CHOOSE c \in index : c # "date"
      doses == {df[i].Dose : i \in 1..Len(df)}
      keys == {[c \in index |-> df[i][c]] : i \in 1..Len(df)}
      cell(k, d) ==
        IF \E i \in 1..Len(df) :
             df[i].Dose = d /\ \A c \in index : df[i][c] = k[c]
        THEN df[CHOOSE i \in 1..Len(df) :
                  df[i].Dose = d /\ \A c \in index : df[i][c] = k[c]].value
        ELSE NaN
      rows == {k @@ [d \in doses |-> cell(k, d)] : k \in keys}
      pos(r) ==
        1 + Cardinality({x \in rows : IndexLess(x, r, label)})
  IN  [n \in 1..Cardinality(rows) |-> CHOOSE r \in rows : pos(r) = n]

\* df.First or df.Second raises AttributeError when the frame has no such
\* column.
VaccinationsRaises(df) == ~HasColumn(df, "First") \/ ~HasColumn(df, "Second")

\* pipe_vaccinations
pipe_vaccinations(df) ==
  [i \in 1..Len(df) |->
     LET r == df[i]
     IN  [c \in DOMAIN r \ {"First", "Second"} |-> r[c]] @@
         [people_vaccinated |-> r.First,
          people_fully_vaccinated |-> r.Second,
          total_vaccinations |-> FillNa0(r.First) + FillNa0(r.Second)]]

vaccine_mapping ==
  (Pfizer :> PfizerBioNTech) @@ (Sinovac :> Sinovac) @@
  (AstraZeneca :> OxfordAstraZeneca)

\* Mutant: the assertion only asks that every label is mapped.
RenameRaises_SubsetOnly(df) ==
  ~({df[i].Type : i \in 1..Len(df)} \subseteq DOMAIN vaccine_mapping)

\* The assertion of pipe_rename_vaccines fails.
RenameRaises(df) == {df[i].Type : i \in 1..Len(df)} # DOMAIN vaccine_mapping

\* pipe_rename_vaccines, past its assertion: df.replace(vaccine_mapping).  The
\* other columns hold numbers and dates, which equal no key of the mapping.
pipe_rename_vaccines(df) ==
  [i \in 1..Len(df) |->
     [df[i] EXCEPT !.Type =
        IF @ \in DOMAIN vaccine_mapping THEN vaccine_mapping[@] ELSE @]]

\* The sum of a column, NaN skipped.
SumColumn(df, c) == SumSeq([i \in 1..Len(df) |-> FillNa0(df[i][c])])

\* The distinct values of the set S of numbers, ascending.
RECURSIVE Ascending(_)
Ascending(S) ==
  IF S = {} THEN <<>>
  ELSE LET m == CHOOSE x \in S : \A y \in S : x <= y
       IN  <<m>> \o Ascending(S \ {m})

\* Mutant: sort_values("Type", ascending=False).
pipe_aggregate_metrics_Descending(df) ==
  LET sorted == SortBy(df, [i \in 1..Len(df) |->
                            [j \in 1..Len(df) |-> StrLess(df[j].Type, df[i].Type)]])
      dates == Ascending({df[i].date : i \in 1..Len(df)})
      group(d) == SelectSeq(sorted, LAMBDA r : r.date = d)
  IN  [k \in 1..Len(dates) |->
         LET g == group(dates[k])
         IN  [date |-> dates[k],
              people_vaccinated |-> SumColumn(g, "people_vaccinated"),
              people_fully_vaccinated |-> SumColumn(g, "people_fully_vaccinated"),
              total_vaccinations |-> SumSeq([i \in 1..Len(g) |-> g[i].total_vaccinations]),
              vaccine |-> Join(CommaSpace, [i \in 1..Len(g) |-> g[i].Type])]]

\* pipe_aggregate_metrics: groupby sorts the group keys and keeps the rows of
\* a group in the order sort_values left them in.
pipe_aggregate_metrics(df) ==
  LET sorted == SortBy(df, [i \in 1..Len(df) |->
                            [j \in 1..Len(df) |-> StrLess(df[i].Type, df[j].Type)]])
      dates == Ascending({df[i].date : i \in 1..Len(df)})
      group(d) == SelectSeq(sorted, LAMBDA r : r.date = d)
  IN  [k \in 1..Len(dates) |->
         LET g == group(dates[k])
         IN  [date |-> dates[k],
              people_vaccinated |-> SumColumn(g, "people_vaccinated"),
              people_fully_vaccinated |-> SumColumn(g, "people_fully_vaccinated"),
              total_vaccinations |-> SumSeq([i \in 1..Len(g) |-> g[i].total_vaccinations]),
              vaccine |-> Join(CommaSpace, [i \in 1..Len(g) |-> g[i].Type])]]

\* pipe_location
pipe_location(self, df) ==
  [i \in 1..Len(df) |-> df[i] @@ [location |-> self.location]]

\* Mutant: the data URL instead of the reference URL.
pipe_source_DataUrl(self, df) ==
  [i \in 1..Len(df) |-> df[i] @@ [source_url |-> self.source_url]]

\* pipe_source
pipe_source(self, df) ==
  [i \in 1..Len(df) |-> df[i] @@ [source_url |-> self.source_url_ref]]

\* pipeline_vaccinations
pipeline_vaccinations(self, df) ==
  pipe_location(self, pipe_source(self, pipe_aggregate_metrics(df)))

\* Mutant: the first-dose count as the manufacturer total.
pipeline_manufacturer_FirstDose(df) ==
  SortBy([i \in 1..Len(df) |->
            [vaccine |-> df[i].Type, date |-> df[i].date,
             total_vaccinations |-> FillNa0(df[i].people_vaccinated),
             location |-> "Chile"]],
         [i \in 1..Len(df) |-> [j \in 1..Len(df) |-> df[i].date < df[j].date]])

\* pipeline_manufacturer
pipeline_manufacturer(df) ==
  SortBy([i \in 1..Len(df) |->
            [vaccine |-> df[i].Type, date |-> df[i].date,
             total_vaccinations |-> df[i].total_vaccinations,
             location |-> "Chile"]],
         [i \in 1..Len(df) |-> [j \in 1..Len(df) |-> df[i].date < df[j].date]])

\* ------------------------------------------------------- the age-group regex
\* regex = (\d{1,2})(?:[ a-zA-Z]+|-(\d{1,2})[ a-zA-Z]*)
\* Mutant: the character class with "+" in it, [ +a-zA-Z].
WordChars_WithPlus == Letters \cup {" ", "+"}

WordChars == Letters \cup {" "}

DigitAt(s, i) == i <= Len(s) /\ s[i] \in Digits

\* The match at position i with n digits in group 1: <<>> when there is none,
\* else <<groups>>.  First alternative first; in the second one group 2 is
\* greedy, and the trailing [ a-zA-Z]* matches whatever follows.
MatchWith(s, i, n) ==
  LET j == i + n
  IN  IF ~(\A k \in i..(j - 1) : DigitAt(s, k)) THEN <<>>
      ELSE IF j <= Len(s) /\ s[j] \in WordChars
        THEN <<[age_group_min |-> Val(SubSeq(s, i, j - 1)), age_group_max |-> NaN]>>
      ELSE IF j <= Len(s) /\ s[j] = "-" /\ DigitAt(s, j + 1)
        THEN <<[age_group_min |-> Val(SubSeq(s, i, j - 1)),
                age_group_max |->
                  Val(SubSeq(s, j + 1, IF DigitAt(s, j + 2) THEN j + 2 ELSE j + 1))]>>
      ELSE <<>>

\* Mutant: \d in place of \d{1,2} in group 1.
MatchAt_OneDigit(s, i) == MatchWith(s, i, 1)

\* \d{1,2} is greedy: two digits first, one digit on backtracking.
MatchAt(s, i) ==
  IF MatchWith(s, i, 2) # <<>> THEN MatchWith(s, i, 2) ELSE MatchWith(s, i, 1)

\* Series.str.extract(regex) on one label: the groups of the first (leftmost)
\* match, NaN in both when nothing matches.
Extract(s) ==
  IF \E i \in 1..Len(s) : MatchAt(s, i) # <<>>
  THEN MatchAt(s, CHOOSE i \in 1..Len(s) :
                    /\ MatchAt(s, i) # <<>>
                    /\ \A k \in 1..(i - 1) : MatchAt(s, k) = <<>>)[1]
  ELSE [age_group_min |-> NaN, age_group_max |-> NaN]

\* pipe_postprocess_age
pipe_postprocess_age(df) ==
  [i \in 1..Len(df) |->
     [date |-> df[i].date,
      age_group_min |-> Extract(df[i].Age).age_group_min,
      age_group_max |-> Extract(df[i].Age).age_group_max,
      total_vaccinations |-> df[i].total_vaccinations,
      location |-> df[i].location]]

\* sort_values(by="date")
SortByDate(df) ==
  SortBy(df, [i \in 1..Len(df) |-> [j \in 1..Len(df) |-> df[i].date < df[j].date]])

\* ------------------------------------------------------------------- inputs
DoseSeq == <<"First", "Second">>

\* The n-th assignment of the values (a sequence of cells) to the date columns.
Vec(values, n) ==
  [d \in Dates |-> values[((n \div (Len(values) ^ (d - 1))) % Len(values)) + 1]]

\* The n-th row over the labels: label, then Dose, then values.
SourceRow(colname, labels, values, n) ==
  LET numVecs == Len(values) ^ NumDates
  IN  (colname :> labels[(n \div (2 * numVecs)) + 1]) @@
      [Dose |-> DoseSeq[((n \div numVecs) % 2) + 1],
       cols |-> Vec(values, n % numVecs)]

\* The strictly increasing sequences over 0..(u - 1) of length at most k.
RECURSIVE Increasing(_, _)
Increasing(u, k) ==
  IF k = 0 THEN {<<>>}
  ELSE LET prev == Increasing(u, k - 1)
       IN  prev \cup
           UNION {{Append(t, n) :
                     n \in (IF t = <<>> THEN 0 ELSE t[Len(t)] + 1)..(u - 1)} :
                  t \in {p \in prev : Len(p) = k - 1}}

\* The tables of at most k distinct rows over the labels and values, rows in
\* one order (melt and pivot make the row order of the source immaterial).
SourceTables(colname, labels, values, k) ==
  LET u == Len(labels) * 2 * (Len(values) ^ NumDates)
  IN  {[i \in 1..Len(t) |-> SourceRow(colname, labels, values, t[i])] :
         t \in Increasing(u, k)}

\* A table, or the table and one more row of rows.
WithOneMore(table, rows) == {table} \cup {Append(table, r[1]) : r \in rows}

TypeLabels == <<AstraZeneca, Moderna, Pfizer, Sinovac, Total>>
Age18to29 == <<"1", "8", "-", "2", "9">>
Age80orMore == <<"8", "0", " ", "o", "r", " ", "m", "o", "r", "e">>
AgeLabels == <<Age18to29, Total>>



Ones == [d \in Dates |-> Val(1)]

\* A type table that pipeline_base accepts: the three mapped labels, first
\* and second doses.
CoreType ==
  <<[Type |-> Pfizer, Dose |-> "First", cols |-> Ones],
    [Type |-> Pfizer, Dose |-> "Second", cols |-> Ones],
    [Type |-> Sinovac, Dose |-> "First", cols |-> Ones],
    [Type |-> AstraZeneca, Dose |-> "Second", cols |-> Ones]>>

\* An age table that pipeline_age accepts.
CoreAge ==
  <<[Age |-> Age18to29, Dose |-> "First", cols |-> Ones],
    [Age |-> Age80orMore, Dose |-> "Second", cols |-> Ones]>>

\* The type tables of SpecAge: the accepted table, alone or with one more row
\* of any label, Dose and values.
TypeTablesFew ==
  WithOneMore(CoreType,
    SourceTables("Type", TypeLabels, <<Val(-1), Val(1)>>, 1) \ {<<>>})

\* The age tables of Spec: the accepted table, alone or with one more row of
\* any label and Dose.
AgeTablesFew ==
  WithOneMore(CoreAge, SourceTables("Age", AgeLabels, <<Val(1)>>, 1) \ {<<>>})

\* The type tables of Spec: any rows with counts 0 and 1, and the tables of
\* TypeTablesFew.
TypeTables ==
  SourceTables("Type", TypeLabels, <<Val(0), Val(1)>>, MaxRows) \cup TypeTablesFew

\* The age tables of SpecAge: any rows with empty cells and counts 0 and 1,
\* and the accepted table with one more row of any label, Dose and values.
AgeTables ==
  SourceTables("Age", AgeLabels, <<NaN, Val(0), Val(1)>>, MaxAgeRows)
    \cup WithOneMore(CoreAge,
           SourceTables("Age", AgeLabels, <<NaN, Val(0), Val(1)>>, 1) \ {<<>>})

\* The age labels of SpecLabel: every string of at most MaxLabelLen characters
\* of LabelChars, and the label forms of the source.
LabelChars == {"1", "2", "-", "+", " ", "a"}

RECURSIVE Strings(_)
Strings(k) ==
  IF k = 0 THEN {<<>>}
  ELSE LET prev == Strings(k - 1)
       IN  prev \cup {Append(t, c) : t \in {p \in prev : Len(p) = k - 1},
                                     c \in LabelChars}

Age80PlusYears == <<"8", "0", "+", " ", "y", "e", "a", "r", "s">>
Age18to29Years == <<"1", "8", "-", "2", "9", " ", "y", "e", "a", "r", "s">>

Labels ==
  Strings(MaxLabelLen) \cup {Age18to29, Age80orMore, Age80PlusYears, Age18to29Years}

\* One age table per label: its first and second doses.
LabelTables ==
  {<<[Age |-> l, Dose |-> "First", cols |-> Ones],
     [Age |-> l, Dose |-> "Second", cols |-> Ones]>> : l \in Labels}

Locations == {"Chile", "Peru"}

\* --------------------------------------------------------------- the program
VARIABLES
  self,      \* the Chile instance: source_url, source_url_ref, source_url_age, location
  pc,        \* the step of to_csv that runs next, "done" or "aborted"
  err,       \* the exception that aborted the run, "" when none
  csv_type,  \* what read() returned
  csv_age,   \* what read_age() returned
  frame,     \* the frame between two steps of a pipeline
  df,        \* to_csv's df, the result of pipeline_base
  df_age,    \* to_csv's df_age, the result of pipeline_age
  written    \* the files written so far, in order: <<[path, rows]>>

vars == <<self, pc, err, csv_type, csv_age, frame, df, df_age, written>>

\* Chile(...), the location being one of locations
InitAt(locations) ==
  /\ self \in {[source_url |-> "chile-vaccination-type.csv",
                source_url_ref |-> "https://www.gob.cl/yomevacuno/",
                source_url_age |-> "chile-vaccination-ages.csv",
                location |-> l] : l \in locations}
  /\ pc = "read"
  /\ err = ""
  /\ csv_type = <<>>
  /\ csv_age = <<>>
  /\ frame = <<>>
  /\ df = <<>>
  /\ df_age = <<>>
  /\ written = <<>>

Init == InitAt(Locations)

\* The instance that main() constructs.
InitMain == InitAt({"Chile"})

\* A step that raises e ends the run; nothing else changes.
Raise(e) ==
  /\ pc' = "aborted"
  /\ err' = e
  /\ UNCHANGED <<self, csv_type, csv_age, frame, df, df_age, written>>

\* A pipe step: frame becomes f, control goes to next.
Step(f, next) ==
  /\ frame' = f
  /\ pc' = next
  /\ UNCHANGED <<self, err, csv_type, csv_age, df, df_age, written>>

\* self.read(), the table being one of tables
ReadFrom(tables) ==
  /\ pc = "read"
  /\ \E t \in tables :
       /\ csv_type' = t
       /\ frame' = t
  /\ pc' = "base_melt"
  /\ UNCHANGED <<self, err, csv_age, df, df_age, written>>

Read == ReadFrom(TypeTables)

BaseMelt ==
  /\ pc = "base_melt"
  /\ Step(pipe_melt(frame, {"Type", "Dose"}), "base_filter")

BaseFilter ==
  /\ pc = "base_filter"
  /\ Step(pipe_filter_rows(frame, "Type"), "base_pivot")

BasePivot ==
  /\ pc = "base_pivot"
  /\ IF PivotRaises(frame, {"Type", "date"})
     THEN Raise("ValueError")
     ELSE Step(pipe_pivot(frame, {"Type", "date"}), "base_vaccinations")

BaseVaccinations ==
  /\ pc = "base_vaccinations"
  /\ IF VaccinationsRaises(frame)
     THEN Raise("AttributeError")
     ELSE Step(pipe_vaccinations(frame), "base_rename")

\* Mutant: the overall output is written as soon as pipeline_base is done.
BaseRename_WritesFirst ==
  /\ pc = "base_rename"
  /\ IF RenameRaises(frame)
     THEN Raise("AssertionError")
     ELSE /\ df' = pipe_rename_vaccines(frame)
          /\ frame' = <<>>
          /\ pc' = "read_age"
          /\ written' =
               Append(written,
                      [path |-> <<"tmp_vax_out", self.location>>,
                       rows |-> pipeline_vaccinations(self, pipe_rename_vaccines(frame))])
          /\ UNCHANGED <<self, err, csv_type, csv_age, df_age>>

\* The last step of pipeline_base; its result is to_csv's df.
BaseRename ==
  /\ pc = "base_rename"
  /\ IF RenameRaises(frame)
     THEN Raise("AssertionError")
     ELSE /\ df' = pipe_rename_vaccines(frame)
          /\ frame' = <<>>
          /\ pc' = "read_age"
          /\ UNCHANGED <<self, err, csv_type, csv_age, df_age, written>>

\* self.read_age()
ReadAgeFrom(tables) ==
  /\ pc = "read_age"
  /\ \E t \in tables :
       /\ csv_age' = t
       /\ frame' = t
  /\ pc' = "age_melt"
  /\ UNCHANGED <<self, err, csv_type, df, df_age, written>>

ReadAge == ReadAgeFrom(AgeTables)

\* The reads of the other specifications.
ReadFew == ReadFrom(TypeTablesFew)
ReadCore == ReadFrom({CoreType})
ReadAgeFew == ReadAgeFrom(AgeTablesFew)
ReadAgeLabel == ReadAgeFrom(LabelTables)

AgeMelt ==
  /\ pc = "age_melt"
  /\ Step(pipe_melt(frame, {"Age", "Dose"}), "age_filter")

AgeFilter ==
  /\ pc = "age_filter"
  /\ Step(pipe_filter_rows(frame, "Age"), "age_pivot")

AgePivot ==
  /\ pc = "age_pivot"
  /\ IF PivotRaises(frame, {"Age", "date"})
     THEN Raise("ValueError")
     ELSE Step(pipe_pivot(frame, {"Age", "date"}), "age_vaccinations")

AgeVaccinations ==
  /\ pc = "age_vaccinations"
  /\ IF VaccinationsRaises(frame)
     THEN Raise("AttributeError")
     ELSE Step(pipe_vaccinations(frame), "age_location")

AgeLocation ==
  /\ pc = "age_location"
  /\ Step(pipe_location(self, frame), "age_postprocess")

AgePostprocess ==
  /\ pc = "age_postprocess"
  /\ Step(pipe_postprocess_age(frame), "age_sort")

\* The last step of pipeline_age; its result is to_csv's df_age.
AgeSort ==
  /\ pc = "age_sort"
  /\ df_age' = SortByDate(frame)
  /\ frame' = <<>>
  /\ pc' = "write_vaccinations"
  /\ UNCHANGED <<self, err, csv_type, csv_age, df, written>>

\* to_csv of rows at the path that paths resolves for kind and location
Write(kind, rows, next) ==
  /\ written' = Append(written, [path |-> <<kind, self.location>>, rows |-> rows])
  /\ pc' = next
  /\ UNCHANGED <<self, err, csv_type, csv_age, frame, df, df_age>>

WriteVaccinations ==
  /\ pc = "write_vaccinations"
  /\ Write("tmp_vax_out", pipeline_vaccinations(self, df), "write_manufacturer")

WriteManufacturer ==
  /\ pc = "write_manufacturer"
  /\ Write("tmp_vax_out_man", pipeline_manufacturer(df), "write_age")

WriteAge ==
  /\ pc = "write_age"
  /\ Write("tmp_vax_out_by_age_group", df_age, "done")

Pipeline ==
  \/ BaseMelt \/ BaseFilter \/ BasePivot \/ BaseVaccinations \/ BaseRename
  \/ AgeMelt \/ AgeFilter \/ AgePivot \/ AgeVaccinations \/ AgeLocation
  \/ AgePostprocess \/ AgeSort
  \/ WriteVaccinations \/ WriteManufacturer \/ WriteAge

\* to_csv on any type table and a few age tables
Next == Read \/ ReadAgeFew \/ Pipeline

Spec == Init /\ [][Next]_vars

\* to_csv on a few type tables and any age table
NextAge == ReadFew \/ ReadAge \/ Pipeline

SpecAge == Init /\ [][NextAge]_vars

\* to_csv, called as main() does, on the accepted type table and an age table
\* of any label
NextLabel == ReadCore \/ ReadAgeLabel \/ Pipeline

SpecLabel == InitMain /\ [][NextLabel]_vars

\* ------------------------------------------------------------ for the claims
\* The steps of to_csv in program order.
StepSeq ==
  <<"read", "base_melt", "base_filter", "base_pivot", "base_vaccinations",
    "base_rename", "read_age", "age_melt", "age_filter", "age_pivot",
    "age_vaccinations", "age_location", "age_postprocess", "age_sort",
    "write_vaccinations", "write_manufacturer", "write_age", "done">>

StepNo(p) == CHOOSE i \in 1..Len(StepSeq) : StepSeq[i] = p

\* Control is past the step p (and the run has not aborted).
Past(p) == pc # "aborted" /\ StepNo(pc) > StepNo(p)

TypesOf(f) == {f[i].Type : i \in 1..Len(f)}

MappedNames == {PfizerBioNTech, Sinovac, OxfordAstraZeneca}

\* The mapped names, and the ", "-joins of two or three different ones.
JoinedMappedNames ==
  {Join(CommaSpace, q) :
     q \in {r \in UNION {[1..n -> MappedNames] : n \in 1..3} :
              \A i, j \in 1..Len(r) : i # j => r[i] # r[j]}}

\* C1: pipe_rename_vaccines completes only on a table whose Type values are
\* exactly Pfizer, Sinovac and Astra-Zeneca, and then replaces every label by
\* its mapped name; on any other table it aborts the run with an assertion
\* failure, with nothing written then or later.
C1_RenameExactOrAbort ==
  [][/\ pc = "base_rename" =>
          IF TypesOf(frame) = {Pfizer, Sinovac, AstraZeneca}
          THEN /\ pc' = "read_age"
               /\ Len(df') = Len(frame)
               /\ \A i \in 1..Len(frame) :
                    /\ frame[i].Type = Pfizer => df'[i].Type = PfizerBioNTech
                    /\ frame[i].Type = Sinovac => df'[i].Type = Sinovac
                    /\ frame[i].Type = AstraZeneca => df'[i].Type = OxfordAstraZeneca
          ELSE /\ pc' = "aborted"
               /\ err' = "AssertionError"
               /\ written' = <<>>
     /\ pc = "aborted" => written' = <<>>
     /\ \A k \in 1..Len(written') : k <= 2 =>
          \A i \in 1..Len(written'[k].rows) :
            written'[k].rows[i].vaccine \in JoinedMappedNames]_vars

\* The rename step has aborted on a table that holds an unmapped label next
\* to the three mapped ones.
C1_Witness ==
  /\ pc = "aborted"
  /\ err = "AssertionError"
  /\ TypesOf(frame) = {Pfizer, Sinovac, AstraZeneca, Moderna}

\* The cells <<row, date>> of a source table that pipe_filter_rows is to keep:
\* label other than Total, value strictly positive.
KeptCells(csv, colname) ==
  {c \in (1..Len(csv)) \X Dates :
     /\ csv[c[1]][colname] # Total
     /\ ~IsNaN(csv[c[1]].cols[c[2]])
     /\ csv[c[1]].cols[c[2]][1] > 0}

\* The sum of the values of the cells of a source table.
RECURSIVE CellSum(_, _)
CellSum(csv, cells) ==
  IF cells = {} THEN 0
  ELSE LET c == CHOOSE x \in cells : TRUE
       IN  csv[c[1]].cols[c[2]][1] + CellSum(csv, cells \ {c})

\* The sum of the column col over the rows of f that satisfy the test.
RowSum(f, col, Test(_)) ==
  SumSeq([i \in 1..Len(f) |-> IF Test(f[i]) THEN f[i][col] ELSE 0])

MappedName(l) ==
  IF l = Pfizer THEN PfizerBioNTech
  ELSE IF l = AstraZeneca THEN OxfordAstraZeneca
  ELSE l

\* C2: in both pipelines the table handed to pipe_pivot holds no "Total" row
\* and no row whose value is not strictly positive, no "Total" row reaches the
\* assertion of pipe_rename_vaccines, and every cell of the three outputs is
\* made of the kept cells of the source alone: per date (and vaccine) the
\* outputs' counts are the sums of the kept cells, and rows exist only where a
\* kept cell does.
C2_FilteredBeforePivot ==
  /\ pc = "base_pivot" =>
       \A i \in 1..Len(frame) :
         frame[i].Type # Total /\ ~IsNaN(frame[i].value) /\ frame[i].value[1] > 0
  /\ pc = "age_pivot" =>
       \A i \in 1..Len(frame) :
         frame[i].Age # Total /\ ~IsNaN(frame[i].value) /\ frame[i].value[1] > 0
  /\ pc = "base_rename" => Total \notin TypesOf(frame)
  /\ Len(written) >= 1 =>
       LET kept == KeptCells(csv_type, "Type")
           rows == written[1].rows
       IN  /\ {rows[i].date : i \in 1..Len(rows)} = {c[2] : c \in kept}
           /\ \A i \in 1..Len(rows) :
                /\ rows[i].people_vaccinated =
                     CellSum(csv_type, {c \in kept : c[2] = rows[i].date
                                          /\ csv_type[c[1]].Dose = "First"})
                /\ rows[i].people_fully_vaccinated =
                     CellSum(csv_type, {c \in kept : c[2] = rows[i].date
                                          /\ csv_type[c[1]].Dose = "Second"})
                /\ rows[i].total_vaccinations =
                     CellSum(csv_type, {c \in kept : c[2] = rows[i].date})
  /\ Len(written) >= 2 =>
       LET kept == KeptCells(csv_type, "Type")
           rows == written[2].rows
       IN  /\ {<<rows[i].vaccine, rows[i].date>> : i \in 1..Len(rows)} =
                {<<MappedName(csv_type[c[1]].Type), c[2]>> : c \in kept}
           /\ \A i \in 1..Len(rows) :
                rows[i].total_vaccinations =
                  CellSum(csv_type,
                          {c \in kept : /\ c[2] = rows[i].date
                                        /\ MappedName(csv_type[c[1]].Type) = rows[i].vaccine})
  /\ Len(written) >= 3 =>
       LET kept == KeptCells(csv_age, "Age")
           rows == written[3].rows
       IN  \A d \in Dates :
             /\ Cardinality({i \in 1..Len(rows) : rows[i].date = d}) =
                  Cardinality({csv_age[c[1]].Age : c \in {x \in kept : x[2] = d}})
             /\ RowSum(rows, "total_vaccinations", LAMBDA r : r.date = d) =
                  CellSum(csv_age, {c \in kept : c[2] = d})

\* All three outputs are written from source tables that both hold a "Total"
\* row with a positive value and a value that is not positive.
C2_Witness ==
  /\ pc = "done"
  /\ \E i \in 1..Len(csv_type), d, e \in Dates :
       /\ csv_type[i].Type = Total
       /\ csv_type[i].cols[d] = Val(1)
       /\ csv_type[i].cols[e] = Val(-1)
  /\ \E i \in 1..Len(csv_age), d, e \in Dates :
       /\ csv_age[i].Age = Total
       /\ csv_age[i].cols[d] = Val(1)
       /\ csv_age[i].cols[e] \in {NaN, Val(0)}

\* C3 (as claimed): every (category, date) row that pipe_pivot produces gets
\* total_vaccinations = first dose + second dose, a missing reading counted as
\* 0: pipe_vaccinations never aborts on a table that has rows, and a row with
\* first-dose data only carries the first-dose value as its total.
C3_TotalForEveryPivotRow ==
  /\ (pc = "aborted" /\ err = "AttributeError") => frame = <<>>
  /\ pc \in {"base_rename", "age_location"} =>
       \A i \in 1..Len(frame) :
         /\ IsNaN(frame[i].people_fully_vaccinated) =>
              frame[i].total_vaccinations = frame[i].people_vaccinated[1]
         /\ IsNaN(frame[i].people_vaccinated) =>
              frame[i].total_vaccinations = frame[i].people_fully_vaccinated[1]

\* The sum over the rows of df of date d of the cell column col, NaN as 0.
DfCellSum(col, d) ==
  SumSeq([i \in 1..Len(df) |-> IF df[i].date = d THEN FillNa0(df[i][col]) ELSE 0])

\* The strings of the set S in ascending order.
RECURSIVE AscendingLabels(_)
AscendingLabels(S) ==
  IF S = {} THEN <<>>
  ELSE LET m == CHOOSE x \in S : \A y \in S : y = x \/ StrLess(x, y)
       IN  <<m>> \o AscendingLabels(S \ {m})

\* C4: the overall output has exactly one row per distinct date of the base
\* table, in ascending date order; its three counts are the sums of the base
\* table's columns over the rows of that date, and vaccine is the ", "-join of
\* the labels of that date, each once, in ascending order.
C4_OneRowPerDateSummed ==
  Len(written) >= 1 =>
    LET rows == written[1].rows
    IN  /\ Len(rows) = Cardinality({df[i].date : i \in 1..Len(df)})
        /\ {rows[i].date : i \in 1..Len(rows)} = {df[i].date : i \in 1..Len(df)}
        /\ \A i, j \in 1..Len(rows) : i < j => rows[i].date < rows[j].date
        /\ \A i \in 1..Len(rows) :
             /\ rows[i].people_vaccinated = DfCellSum("people_vaccinated", rows[i].date)
             /\ rows[i].people_fully_vaccinated =
                  DfCellSum("people_fully_vaccinated", rows[i].date)
             /\ rows[i].total_vaccinations =
                  RowSum(df, "total_vaccinations", LAMBDA r : r.date = rows[i].date)
             /\ rows[i].vaccine =
                  Join(CommaSpace,
                       AscendingLabels({df[k].Type : k \in {n \in 1..Len(df) :
                                                        df[n].date = rows[i].date}}))

\* The overall output is written with two dates, one of them with all three
\* vaccines and the other with fewer.
C4_Witness ==
  /\ Len(written) >= 1
  /\ Len(written[1].rows) = 2
  /\ \E i, j \in 1..2 :
       /\ written[1].rows[i].vaccine =
            Join(CommaSpace, <<OxfordAstraZeneca, PfizerBioNTech, Sinovac>>)
       /\ written[1].rows[j].vaccine \in
            {PfizerBioNTech, Join(CommaSpace, <<OxfordAstraZeneca, Sinovac>>),
             Join(CommaSpace, <<PfizerBioNTech, Sinovac>>)}

\* ---- the label forms of the age claims
IsDigits(s) == \A i \in 1..Len(s) : s[i] \in Digits
IsWords(s) == \A i \in 1..Len(s) : s[i] \in Letters \cup {" "}

\* "N-M" and then words: <<n, m>>, the numbers of digits of N and M
BoundedShapes(l) ==
  {nm \in (1..2) \X (1..2) :
     /\ Len(l) >= nm[1] + 1 + nm[2]
     /\ IsDigits(SubSeq(l, 1, nm[1]))
     /\ l[nm[1] + 1] = "-"
     /\ IsDigits(SubSeq(l, nm[1] + 2, nm[1] + 1 + nm[2]))
     /\ IsWords(SubSeq(l, nm[1] + 2 + nm[2], Len(l)))}

\* "N or more": N, a space and then words: the numbers of digits of N
OpenEndedShapes(l) ==
  {n \in 1..2 :
     /\ Len(l) >= n + 2
     /\ IsDigits(SubSeq(l, 1, n))
     /\ l[n + 1] = " "
     /\ IsWords(SubSeq(l, n + 2, Len(l)))}

\* "N+" and then words: the numbers of digits of N
PlusShapes(l) ==
  {n \in 1..2 :
     /\ Len(l) >= n + 1
     /\ IsDigits(SubSeq(l, 1, n))
     /\ l[n + 1] = "+"
     /\ IsWords(SubSeq(l, n + 2, Len(l)))}

\* The label of the age table of SpecLabel (all its rows have the same one).
TheLabel == csv_age[1].Age

\* C5: pipe_postprocess_age gives every row whose label is "N-M" and then
\* words (N and M of one or two digits) age_group_min = N and age_group_max =
\* M, and every row whose label is N, a space and words ("N or more")
\* age_group_min = N and an empty age_group_max; the run does not abort on
\* such a label.
C5_RangeAndOpenEndedParsed ==
  /\ pc = "age_sort" =>
       \A i \in 1..Len(frame) :
         /\ \A nm \in BoundedShapes(TheLabel) :
              /\ frame[i].age_group_min = Val(SubSeq(TheLabel, 1, nm[1]))
              /\ frame[i].age_group_max =
                   Val(SubSeq(TheLabel, nm[1] + 2, nm[1] + 1 + nm[2]))
         /\ \A n \in OpenEndedShapes(TheLabel) :
              /\ frame[i].age_group_min = Val(SubSeq(TheLabel, 1, n))
              /\ frame[i].age_group_max = NaN
  /\ pc = "aborted" =>
       BoundedShapes(frame[1].Age) = {} /\ OpenEndedShapes(frame[1].Age) = {}

\* Rows are extracted from a two-digit range followed by a word.
C5_Witness ==
  /\ pc = "age_sort"
  /\ Len(frame) = 2
  /\ BoundedShapes(TheLabel) = {<<2, 2>>}
  /\ Len(TheLabel) > 5

\* C6 (as claimed): every row whose label is "N+" and then words gets
\* age_group_min = N and an empty age_group_max.
C6_PlusFormParsed ==
  pc = "age_sort" =>
    \A i \in 1..Len(frame) :
      \A n \in PlusShapes(TheLabel) :
        /\ frame[i].age_group_min = Val(SubSeq(TheLabel, 1, n))
        /\ frame[i].age_group_max = NaN

\* C6 (amended): the regex matches no label of the form "N+" and then words:
\* every such row gets an empty age_group_min and an empty age_group_max,
\* while a row whose label is "N-M" and then words gets age_group_min = N and
\* age_group_max = M.
C6_PlusFormUnmatched ==
  pc = "age_sort" =>
    \A i \in 1..Len(frame) :
      /\ PlusShapes(TheLabel) # {} =>
           frame[i].age_group_min = NaN /\ frame[i].age_group_max = NaN
      /\ \A nm \in BoundedShapes(TheLabel) :
           /\ frame[i].age_group_min # NaN
           /\ frame[i].age_group_min[1] = SubSeq(TheLabel, 1, nm[1])
           /\ frame[i].age_group_max # NaN
           /\ frame[i].age_group_max[1] =
                SubSeq(TheLabel, nm[1] + 2, nm[1] + 1 + nm[2])

\* Rows are extracted from the label "80+ years".
C6_Witness ==
  /\ pc = "age_sort"
  /\ Len(frame) = 2
  /\ TheLabel = Age80PlusYears

\* C7: every row of the overall output has a location column equal to the
\* instance's location and a source_url column equal to its source_url_ref,
\* which is not the URL the table was read from.
C7_OverallRowsStamped ==
  Len(written) >= 1 =>
    \A i \in 1..Len(written[1].rows) :
      LET r == written[1].rows[i]
      IN  /\ {"location", "source_url"} \subseteq DOMAIN r
          /\ r.location = self.location
          /\ r.source_url = self.source_url_ref
          /\ r.source_url # self.source_url

\* The overall output is written with a row for every date, for an instance
\* whose location is not Chile.
C7_Witness ==
  /\ Len(written) >= 1
  /\ Len(written[1].rows) = NumDates
  /\ self.location = "Peru"

OutputKinds == <<"tmp_vax_out", "tmp_vax_out_man", "tmp_vax_out_by_age_group">>

\* C8: nothing is written before both pipeline_base and pipeline_age have
\* completed, so a run that aborts has written nothing; the outputs are
\* written once each, overall, then manufacturer, then age-group, and a run
\* that ends without aborting has written all three.
C8_PipelinesBeforeWrites ==
  /\ written # <<>> =>
       /\ Past("age_sort")
       /\ csv_type # <<>> /\ csv_age # <<>>
       /\ df # <<>> /\ df_age # <<>>
  /\ pc = "aborted" => written = <<>>
  /\ Len(written) <= 3
  /\ \A k \in 1..Len(written) : written[k].path[1] = OutputKinds[k]
  /\ Len(written) =
       (IF Past("write_age") THEN 3
        ELSE IF Past("write_manufacturer") THEN 2
        ELSE IF Past("write_vaccinations") THEN 1 ELSE 0)

\* pipeline_age has aborted on a duplicate key at pivot, after pipeline_base
\* had completed.
C8_Witness ==
  /\ pc = "aborted"
  /\ err = "ValueError"
  /\ df # <<>>
  /\ csv_age # <<>>

\* The sum of total_vaccinations over the rows of date d of an output.
TotalOfDate(rows, d) == RowSum(rows, "total_vaccinations", LAMBDA r : r.date = d)

\* C9: in a run that has written its outputs, the manufacturer output has
\* exactly one row per (vaccine, date) pair of the base table, and on every
\* row of the overall output total_vaccinations is the sum of the manufacturer
\* rows of that date and also people_vaccinated + people_fully_vaccinated.
C9_OverallMatchesManufacturer ==
  Len(written) >= 2 =>
    LET vax == written[1].rows
        man == written[2].rows
        pairs == {<<df[i].Type, df[i].date>> : i \in 1..Len(df)}
    IN  /\ Len(man) = Cardinality(pairs)
        /\ {<<man[i].vaccine, man[i].date>> : i \in 1..Len(man)} = pairs
        /\ \A i \in 1..Len(vax) :
             /\ vax[i].total_vaccinations = TotalOfDate(man, vax[i].date)
             /\ vax[i].total_vaccinations =
                  vax[i].people_vaccinated + vax[i].people_fully_vaccinated

\* Both outputs are written from a base table in which a vaccine has both
\* doses on a date and another vaccine only one.
C9_Witness ==
  /\ pc = "done"
  /\ \E i, j \in 1..Len(df) :
       /\ df[i].date = df[j].date
       /\ ~IsNaN(df[i].people_vaccinated) /\ ~IsNaN(df[i].people_fully_vaccinated)
       /\ IsNaN(df[j].people_vaccinated)

\* C10 (as claimed): every row of every output carries the location the
\* instance was constructed with, the one its output paths are resolved with.
C10_SameLocationEverywhere ==
  \A k \in 1..Len(written) :
    \A i \in 1..Len(written[k].rows) :
      /\ written[k].rows[i].location = self.location
      /\ written[k].rows[i].location = written[k].path[2]
====
